---- MODULE Spec2Model ----
(***************************************************************************)
(* Model of src/src/App.jsx: the App component's state (view, products,    *)
(* inquiries, isAdmin, loading), the asynchronous functions fetchData,     *)
(* addProduct, deleteProduct and addInquiry, the AdminLogin form, and the  *)
(* hosted tables "products" and "inquiries" they talk to.                  *)
(*                                                                         *)
(* JavaScript runs every handler and every continuation after an await to  *)
(* completion, so each action below is one such run.  A gateway call is    *)
(* split in three: the client issues the request, the gateway serves it    *)
(* (reading or changing its tables), the client resumes with the response. *)
(***************************************************************************)
EXTENDS Naturals, Sequences, FiniteSets, TLC

\* ---- bounds ----
MaxMut == 2     \* gateway mutations (insert/delete calls) issued in one session

\* ---- inputs ----
Passwords == {"sk234f90", "admin"}
Names     == {"Clay Bowl"}
Customers == {"Asha"}
ErrMsgs   == {"network down"}

Pages == {"home", "catalog", "admin-login", "admin-dashboard"}

VARIABLES
  view, products, inquiries, isAdmin, loading,  \* App state
  pass, error,                                  \* AdminLogin state
  mounted,                                      \* the mount effect has run
  dialog,                                       \* the alert() or window.confirm() raised by the last step
  fetches,                                      \* the fetchData calls, in start order
  muts,                                         \* the addProduct/deleteProduct/addInquiry calls
  dbProducts, dbInquiries, clock,               \* the hosted tables, the next id / created_at
  prodSrc, inqSrc                               \* which fetchData call set products / inquiries

vars == <<view, products, inquiries, isAdmin, loading, pass, error, mounted,
          dialog, fetches, muts, dbProducts, dbInquiries, clock,
          prodSrc, inqSrc>>

appVars == <<view, products, inquiries, isAdmin, loading>>
dbVars  == <<dbProducts, dbInquiries, clock>>

\* ---- gateway responses: { data, error } ----
Pending == [pending |-> TRUE,  error |-> FALSE, message |-> "", hasData |-> FALSE, data |-> <<>>]
Failed(msg) == [pending |-> FALSE, error |-> TRUE, message |-> msg, hasData |-> FALSE, data |-> <<>>]
Rows(seq) == [pending |-> FALSE, error |-> FALSE, message |-> "", hasData |-> TRUE, data |-> seq]
NoRows == [pending |-> FALSE, error |-> FALSE, message |-> "", hasData |-> FALSE, data |-> <<>>]

\* .order('created_at', { ascending: false })
RECURSIVE OrderDesc(_)
OrderDesc(rows) ==
  IF rows = {} THEN <<>>
  ELSE LET newest == CHOOSE r \in rows : \A s \in rows : s.created_at <= r.created_at
       IN  <<newest>> \o OrderDesc(rows \ {newest})

\* productData || []
OrEmpty(resp) == IF resp.hasData THEN resp.data ELSE <<>>

Ids(seq) == {seq[k].id : k \in DOMAIN seq}

\* ---- browser dialogs ----
NoDialog == [kind |-> "none", text |-> <<>>, id |-> 0, answer |-> FALSE]
Alert(text) == [kind |-> "alert", text |-> text, id |-> 0, answer |-> FALSE]
Confirm(id, answer) ==
  [kind |-> "confirm", text |-> <<"Are you sure you want to delete this item?">>,
   id |-> id, answer |-> answer]

\* ---- which view content is rendered (the loading gate) ----
\* variant: the view switch is rendered outside the loading gate
Rendered_NoGate(page) == mounted /\ view = page

Rendered(page) == mounted /\ ~loading /\ view = page
LoginMounted(v, l) == v = "admin-login" /\ ~l

\* AdminLogin's useState values live only while the form stays mounted
PassAfter(v, l, p) == IF LoginMounted(view, loading) /\ LoginMounted(v, l) THEN p ELSE ""
ErrorAfter(v, l, e) == IF LoginMounted(view, loading) /\ LoginMounted(v, l) THEN e ELSE ""

Init ==
  /\ view = "home"
  /\ products = <<>>
  /\ inquiries = <<>>
  /\ isAdmin = FALSE
  /\ loading = TRUE
  /\ pass = ""
  /\ error = ""
  /\ mounted = FALSE
  /\ dialog = NoDialog
  /\ fetches = <<>>
  /\ muts = <<>>
  /\ dbProducts = {[id |-> 1, name |-> "Clay Bowl", created_at |-> 1]}
  /\ dbInquiries = {}
  /\ clock = 2
  /\ prodSrc = 0
  /\ inqSrc = 0

\* ---- fetchData ----
\* a fetchData call: where it awaits, the response it awaits, its prodError,
\* and the call site that started it
NoCause == [fn |-> "useEffect", id |-> 0]
NewFetch(cause) == [pc |-> "products", resp |-> Pending, prodError |-> FALSE, cause |-> cause]
DoneFetch == [pc |-> "done", resp |-> NoRows, prodError |-> FALSE, cause |-> NoCause]

\* fetchData up to its first await: setLoading(true), products select issued
FetchDataStart(cause) ==
  /\ loading' = TRUE
  /\ fetches' = Append(fetches, NewFetch(cause))
  /\ pass' = ""
  /\ error' = ""

\* useEffect(() => { fetchData(); }, [])
Mount ==
  /\ ~mounted
  /\ mounted' = TRUE
  /\ FetchDataStart(NoCause)
  /\ dialog' = NoDialog
  /\ UNCHANGED <<view, products, inquiries, isAdmin, muts,
                 dbProducts, dbInquiries, clock, prodSrc, inqSrc>>

\* the gateway serves a select of a fetchData call
GatewaySelect(r) ==
  /\ r \in DOMAIN fetches
  /\ fetches[r].pc \in {"products", "inquiries"}
  /\ fetches[r].resp.pending
  /\ \E answer \in {Rows(OrderDesc(IF fetches[r].pc = "products" THEN dbProducts ELSE dbInquiries))}
                     \cup {Failed(m) : m \in ErrMsgs} :
        fetches' = [fetches EXCEPT ![r].resp = answer]
  /\ dialog' = NoDialog
  /\ UNCHANGED <<view, products, inquiries, isAdmin, loading, pass, error, mounted,
                 muts, dbProducts, dbInquiries, clock, prodSrc, inqSrc>>

\* variant: a failed products select empties the collection
ProductsAfterFetch_Clear(resp, old) == IF resp.error THEN <<>> ELSE OrEmpty(resp)

\* if (prodError) console.error(...) else setProducts(productData || [])
ProductsAfterFetch(resp, old) == IF resp.error THEN old ELSE OrEmpty(resp)

\* if (inqError) console.error(...) else setInquiries(inquiryData || [])
InquiriesAfterFetch(resp, old) == IF resp.error THEN old ELSE OrEmpty(resp)

\* fetchData resumes with the products response, issues the inquiries select
FetchProductsReturn(r) ==
  /\ r \in DOMAIN fetches
  /\ fetches[r].pc = "products"
  /\ ~fetches[r].resp.pending
  /\ products' = ProductsAfterFetch(fetches[r].resp, products)
  /\ prodSrc' = r
  /\ fetches' = [fetches EXCEPT ![r].pc = "inquiries", ![r].resp = Pending,
                                ![r].prodError = fetches[r].resp.error]
  /\ dialog' = NoDialog
  /\ UNCHANGED <<view, inquiries, isAdmin, loading, pass, error, mounted, muts, dbProducts, dbInquiries, clock, inqSrc>>

\* variant: fetchData returns early on a failed inquiries select
FetchInquiriesReturn_EarlyReturn(r) ==
  /\ r \in DOMAIN fetches
  /\ fetches[r].pc = "inquiries"
  /\ ~fetches[r].resp.pending
  /\ inquiries' = InquiriesAfterFetch(fetches[r].resp, inquiries)
  /\ inqSrc' = r
  /\ loading' = IF fetches[r].resp.error THEN loading ELSE FALSE
  /\ fetches' = [fetches EXCEPT ![r] = DoneFetch]
  /\ pass' = PassAfter(view, loading', pass)
  /\ error' = ErrorAfter(view, loading', error)
  /\ dialog' = NoDialog
  /\ UNCHANGED <<view, products, isAdmin, mounted, muts,
                 dbProducts, dbInquiries, clock, prodSrc>>

\* fetchData resumes with the inquiries response and ends with setLoading(false)
FetchInquiriesReturn(r) ==
  /\ r \in DOMAIN fetches
  /\ fetches[r].pc = "inquiries"
  /\ ~fetches[r].resp.pending
  /\ inquiries' = InquiriesAfterFetch(fetches[r].resp, inquiries)
  /\ inqSrc' = r
  /\ loading' = FALSE
  /\ fetches' = [fetches EXCEPT ![r] = DoneFetch]
  /\ pass' = PassAfter(view, FALSE, pass)
  /\ error' = ErrorAfter(view, FALSE, error)
  /\ dialog' = NoDialog
  /\ UNCHANGED <<view, products, isAdmin, mounted, muts,
                 dbProducts, dbInquiries, clock, prodSrc>>

\* ---- navigation ----
\* navigate(page) from the brand, the Home and Catalog buttons, "Browse Collection"
Navigate(page) ==
  /\ mounted
  /\ page \in {"home", "catalog"}
  /\ view' = page
  /\ pass' = PassAfter(page, loading, pass)
  /\ error' = ErrorAfter(page, loading, error)
  /\ dialog' = NoDialog
  /\ UNCHANGED <<products, inquiries, isAdmin, loading, mounted, fetches, muts, dbProducts, dbInquiries, clock, prodSrc, inqSrc>>

\* variant: the nav button always opens the dashboard
AdminTarget_Dashboard(admin) == "admin-dashboard"

\* isAdmin ? 'admin-dashboard' : 'admin-login'
AdminTarget(admin) == IF admin THEN "admin-dashboard" ELSE "admin-login"

\* the Admin / Dashboard nav button
AdminNav ==
  /\ mounted
  /\ view' = AdminTarget(isAdmin)
  /\ pass' = PassAfter(AdminTarget(isAdmin), loading, pass)
  /\ error' = ErrorAfter(AdminTarget(isAdmin), loading, error)
  /\ dialog' = NoDialog
  /\ UNCHANGED <<products, inquiries, isAdmin, loading, mounted, fetches, muts, dbProducts, dbInquiries, clock, prodSrc, inqSrc>>

\* ---- AdminLogin ----
\* onChange={(e) => setPass(e.target.value)}
SetPass(p) ==
  /\ Rendered("admin-login")
  /\ pass' = p
  /\ dialog' = NoDialog
  /\ UNCHANGED <<view, products, inquiries, isAdmin, loading, error, mounted, fetches, muts, dbProducts, dbInquiries, clock, prodSrc, inqSrc>>

\* variant: the hinted password is the one accepted
PasswordOk_Hint(p) == p = "admin"

\* pass === 'sk234f90'
PasswordOk(p) == p = "sk234f90"

\* handleLogin, with onLogin = () => { setIsAdmin(true); navigate('admin-dashboard'); }
HandleLogin ==
  /\ Rendered("admin-login")
  /\ IF PasswordOk(pass)
       THEN /\ isAdmin' = TRUE
            /\ view' = "admin-dashboard"
            /\ pass' = ""
            /\ error' = ""
       ELSE /\ error' = "Invalid Password (Hint: admin)"
            /\ UNCHANGED <<isAdmin, view, pass>>
  /\ dialog' = NoDialog
  /\ UNCHANGED <<products, inquiries, loading, mounted, fetches,
                 muts, dbProducts, dbInquiries, clock, prodSrc, inqSrc>>

\* onLogout
Logout ==
  /\ Rendered("admin-dashboard")
  /\ isAdmin' = FALSE
  /\ view' = "home"
  /\ dialog' = Alert(<<"Logged out successfully">>)
  /\ UNCHANGED <<products, inquiries, loading, pass, error, mounted,
                 fetches, muts, dbProducts, dbInquiries, clock, prodSrc, inqSrc>>

\* ---- addProduct, deleteProduct, addInquiry ----
NewMut(fn, req) == [fn |-> fn, req |-> req, resp |-> Pending]
DoneMut == [fn |-> "done", req |-> <<>>, resp |-> NoRows]

\* the add-product form's onSubmit -> addProduct(product), up to its await
AddProduct(name) ==
  /\ Rendered("admin-dashboard")
  /\ Len(muts) < MaxMut
  /\ muts' = Append(muts, NewMut("addProduct",
                 [table |-> "products", op |-> "insert", row |-> [name |-> name]]))
  /\ dialog' = NoDialog
  /\ UNCHANGED <<view, products, inquiries, isAdmin, loading, pass, error, mounted,
                 fetches, dbProducts, dbInquiries, clock, prodSrc, inqSrc>>

\* variant: the answer to the prompt is ignored
IssuesDelete_Always(answer) == TRUE

\* if (window.confirm(...)) { ...delete().eq('id', id) }
IssuesDelete(answer) == answer

\* the trash button's onClick -> deleteProduct(p.id), up to its await
DeleteProduct(id, answer) ==
  /\ Rendered("admin-dashboard")
  /\ id \in Ids(products)
  /\ dialog' = Confirm(id, answer)
  /\ IF IssuesDelete(answer)
       THEN /\ Len(muts) < MaxMut
            /\ muts' = Append(muts, NewMut("deleteProduct",
                           [table |-> "products", op |-> "delete", id |-> id]))
       ELSE muts' = muts
  /\ UNCHANGED <<view, products, inquiries, isAdmin, loading, pass, error, mounted,
                 fetches, dbProducts, dbInquiries, clock, prodSrc, inqSrc>>

\* { ...inquiry, status: 'New' }
InquiryRow(inquiry) == [status |-> "New"] @@ inquiry

\* the inquiry form's onSubmit -> addInquiry(inquiry), up to its await
AddInquiry(k, customer) ==
  /\ Rendered("catalog")
  /\ k \in DOMAIN products
  /\ Len(muts) < MaxMut
  /\ muts' = Append(muts, NewMut("addInquiry",
                 [table |-> "inquiries", op |-> "insert",
                  row |-> InquiryRow([product |-> products[k].name, customer |-> customer])]))
  /\ dialog' = NoDialog
  /\ UNCHANGED <<view, products, inquiries, isAdmin, loading, pass, error, mounted,
                 fetches, dbProducts, dbInquiries, clock, prodSrc, inqSrc>>

\* the gateway serves an insert or a delete
GatewayMutate(i) ==
  /\ i \in DOMAIN muts
  /\ muts[i].fn # "done"
  /\ muts[i].resp.pending
  /\ \/ /\ \E m \in ErrMsgs : muts' = [muts EXCEPT ![i].resp = Failed(m)]
        /\ UNCHANGED dbVars
     \/ /\ muts' = [muts EXCEPT ![i].resp = NoRows]
        /\ LET req == muts[i].req IN
           CASE req.op = "insert" /\ req.table = "products" ->
                  /\ dbProducts' = dbProducts \cup
                        {[id |-> clock, created_at |-> clock] @@ req.row}
                  /\ clock' = clock + 1
                  /\ UNCHANGED dbInquiries
             [] req.op = "insert" /\ req.table = "inquiries" ->
                  /\ dbInquiries' = dbInquiries \cup
                        {[id |-> clock, created_at |-> clock] @@ req.row}
                  /\ clock' = clock + 1
                  /\ UNCHANGED dbProducts
             [] req.op = "delete" ->
                  /\ dbProducts' = {row \in dbProducts : row.id # req.id}
                  /\ UNCHANGED <<dbInquiries, clock>>
  /\ dialog' = NoDialog
  /\ UNCHANGED <<view, products, inquiries, isAdmin, loading, pass, error, mounted,
                 fetches, prodSrc, inqSrc>>

\* variant: fetchData() sits after the try/catch, reached on failure too
CallsFetchData_OnError(fn, resp) == fn \in {"addProduct", "deleteProduct"}

\* variant: addInquiry refreshes after a successful insert as the others do
CallsFetchData_AnyFn(fn, resp) == ~resp.error

\* whether the continuation reaches its fetchData() line
CallsFetchData(fn, resp) == ~resp.error /\ fn \in {"addProduct", "deleteProduct"}

\* the dialog the continuation raises
DialogAfter(fn, resp) ==
  CASE fn = "addProduct" /\ resp.error  -> Alert(<<"Error adding product: ", resp.message>>)
    [] fn = "addProduct" /\ ~resp.error -> Alert(<<"Product Added Successfully!">>)
    [] fn = "deleteProduct" /\ resp.error  -> Alert(<<"Error deleting: ", resp.message>>)
    [] fn = "deleteProduct" /\ ~resp.error -> NoDialog
    [] fn = "addInquiry" /\ resp.error  -> Alert(<<"Error sending inquiry: ", resp.message>>)
    [] fn = "addInquiry" /\ ~resp.error ->
         Alert(<<"Inquiry Sent! The artisan will contact you shortly.">>)

\* the call site of fetchData() in a continuation
CauseOf(m) == [fn |-> m.fn, id |-> IF m.fn = "deleteProduct" THEN m.req.id ELSE 0]

\* a mutation resumes with the gateway's response
MutationReturn(i, fn) ==
  /\ i \in DOMAIN muts
  /\ muts[i].fn = fn
  /\ ~muts[i].resp.pending
  /\ dialog' = DialogAfter(fn, muts[i].resp)
  /\ muts' = [muts EXCEPT ![i] = DoneMut]
  /\ IF CallsFetchData(fn, muts[i].resp)
       THEN FetchDataStart(CauseOf(muts[i]))
       ELSE UNCHANGED <<loading, fetches, pass, error>>
  /\ UNCHANGED <<view, products, inquiries, isAdmin, mounted,
                 dbProducts, dbInquiries, clock, prodSrc, inqSrc>>

AddProductReturn(i) == MutationReturn(i, "addProduct")

DeleteProductReturn(i) == MutationReturn(i, "deleteProduct")

AddInquiryReturn(i) == MutationReturn(i, "addInquiry")

MutIds == 1..MaxMut
FetchIds == 1..(MaxMut + 1)
RowIds == 1..(MaxMut + 1)

Next ==
  \/ Mount
  \/ \E r \in FetchIds : GatewaySelect(r)
  \/ \E r \in FetchIds : FetchProductsReturn(r)
  \/ \E r \in FetchIds : FetchInquiriesReturn(r)
  \/ \E page \in Pages : Navigate(page)
  \/ AdminNav
  \/ \E p \in Passwords : SetPass(p)
  \/ HandleLogin
  \/ Logout
  \/ \E name \in Names : AddProduct(name)
  \/ \E id \in RowIds, answer \in BOOLEAN : DeleteProduct(id, answer)
  \/ \E k \in RowIds, customer \in Customers : AddInquiry(k, customer)
  \/ \E i \in MutIds : GatewayMutate(i)
  \/ \E i \in MutIds : AddProductReturn(i)
  \/ \E i \in MutIds : DeleteProductReturn(i)
  \/ \E i \in MutIds : AddInquiryReturn(i)

Spec == Init /\ [][Next]_vars

\* every gateway request receives a response, and the event loop runs the continuation
Fairness ==
  /\ WF_vars(Mount)
  /\ \A r \in FetchIds : WF_vars(GatewaySelect(r))
  /\ \A r \in FetchIds : WF_vars(FetchProductsReturn(r))
  /\ \A r \in FetchIds : WF_vars(FetchInquiriesReturn(r))

LiveSpec == Spec /\ Fairness

TypeOK ==
  /\ view \in Pages
  /\ isAdmin \in BOOLEAN
  /\ loading \in BOOLEAN
  /\ Len(muts) <= MaxMut
  /\ Len(fetches) <= MaxMut + 1

\* ---- properties ----
InFlight(r) == r \in DOMAIN fetches /\ fetches[r].pc # "done"
Settled(r) == r \in DOMAIN fetches /\ fetches[r].pc = "done"
MutFns == {"addProduct", "deleteProduct", "addInquiry"}

\* C1: whenever the views are rendered (loading is false), products and
\* inquiries were set by one and the same fetchData call, or neither was set yet.
\* prodSrc / inqSrc name the call that last ran its products / inquiries
\* branch, so a failed select does not count as coming from another call.
C1_OneSnapshot == ~loading => prodSrc = inqSrc

\* C2: while some fetchData call has started and not settled, loading is true
\* (so no view content, and no mutation entry point, is rendered).
C2_LoadingWhileInFlight == (\E r \in FetchIds : InFlight(r)) => loading

\* C3 as stated: when a fetchData call settles, a collection whose select
\* failed in that call is the empty sequence.
C3_EmptyOnError ==
  [][\A r \in FetchIds : FetchInquiriesReturn(r) =>
        /\ fetches[r].prodError => products' = <<>>
        /\ fetches[r].resp.error => inquiries' = <<>>]_vars

\* C3 amended: a failed select leaves its collection as it was; the call goes
\* on to the inquiries select after a failed products select, and a successful
\* select replaces its collection by the rows returned, whatever the outcome of
\* the other select.
C3_UnchangedOnError ==
  [][\A r \in FetchIds :
       /\ FetchProductsReturn(r) =>
            /\ products' = IF fetches[r].resp.error THEN products ELSE fetches[r].resp.data
            /\ fetches'[r].pc = "inquiries" /\ fetches'[r].resp.pending
       /\ FetchInquiriesReturn(r) =>
            /\ inquiries' = IF fetches[r].resp.error THEN inquiries ELSE fetches[r].resp.data
            /\ products' = products]_vars

\* a products select failed and the non-empty products collection survived it
C3_Witness ==
  \E r \in FetchIds : /\ r \in DOMAIN fetches
                      /\ fetches[r].pc = "inquiries"
                      /\ fetches[r].prodError
                      /\ products # <<>>

\* C4: when the fetchData call started by a successful deleteProduct(id)
\* settles, having fetched the products itself without error, products holds
\* no row with that id.
C4_DeletedGone ==
  [][\A r \in FetchIds :
       (FetchInquiriesReturn(r) /\ fetches[r].cause.fn = "deleteProduct"
          /\ ~fetches[r].prodError)
       => fetches[r].cause.id \notin Ids(products')]_vars

ErrorPrefix(fn) ==
  CASE fn = "addProduct" -> "Error adding product: "
    [] fn = "deleteProduct" -> "Error deleting: "
    [] fn = "addInquiry" -> "Error sending inquiry: "

\* C5: a mutation whose gateway call fails alerts the gateway's message, starts
\* no fetchData call and changes none of products, inquiries, loading, view,
\* isAdmin; issuing the call changes none of them either.
C5_FailedMutation ==
  [][/\ \A i \in MutIds, fn \in MutFns :
          (MutationReturn(i, fn) /\ muts[i].resp.error) =>
             /\ dialog' = Alert(<<ErrorPrefix(fn), muts[i].resp.message>>)
             /\ fetches' = fetches
             /\ UNCHANGED appVars
     /\ Len(muts') > Len(muts) => (fetches' = fetches /\ UNCHANGED appVars)]_vars

\* a failed mutation has raised its alert
C5_Witness ==
  \E fn \in MutFns, m \in ErrMsgs : dialog = Alert(<<ErrorPrefix(fn), m>>)

\* C6: a declined confirmation issues no gateway request, starts no fetchData
\* call and changes no App state; a delete request for an id is issued only in
\* the step whose confirmation for that id was accepted.
C6_DeclinedDelete ==
  [][/\ \A id \in RowIds : DeleteProduct(id, FALSE) =>
          /\ muts' = muts
          /\ fetches' = fetches
          /\ UNCHANGED appVars
          /\ UNCHANGED dbVars
     /\ (Len(muts') > Len(muts) /\ muts'[Len(muts')].fn = "deleteProduct") =>
          dialog' = Confirm(muts'[Len(muts')].req.id, TRUE)]_vars

\* the user has declined a confirmation
C6_Witness == dialog.kind = "confirm" /\ ~dialog.answer

\* C7: submitting the login form with the shared secret sets isAdmin and shows
\* the dashboard; any other password leaves isAdmin and view alone and sets the
\* inline error; neither touches the gateway, products, inquiries or loading.
C7_Login ==
  [][HandleLogin =>
       /\ IF pass = "sk234f90"
            THEN isAdmin' /\ view' = "admin-dashboard"
            ELSE /\ isAdmin' = isAdmin
                 /\ view' = view
                 /\ error' = "Invalid Password (Hint: admin)"
       /\ UNCHANGED <<products, inquiries, loading, fetches, muts, dbVars>>]_vars

\* a login with the secret has succeeded
C7_Witness == isAdmin /\ view = "admin-dashboard" /\ ~loading

\* C8: addInquiry issues exactly one insert on the inquiries table, with status
\* "New", and neither issuing it nor its response (success or failure) starts a
\* fetchData call or changes products, inquiries or loading.
C8_AddInquiry ==
  [][/\ \A k \in RowIds, c \in Customers : AddInquiry(k, c) =>
          /\ Len(muts') = Len(muts) + 1
          /\ muts'[Len(muts')].req.table = "inquiries"
          /\ muts'[Len(muts')].req.op = "insert"
          /\ muts'[Len(muts')].req.row.status = "New"
          /\ muts'[Len(muts')].req.row.product = products[k].name
          /\ fetches' = fetches
          /\ UNCHANGED <<products, inquiries, loading>>
     /\ \A i \in MutIds : AddInquiryReturn(i) =>
          /\ Len(muts') = Len(muts)
          /\ fetches' = fetches
          /\ UNCHANGED <<products, inquiries, loading>>]_vars

\* an inquiry insert has succeeded and been acknowledged
C8_Witness == dialog = Alert(<<"Inquiry Sent! The artisan will contact you shortly.">>)

\* C9: with every gateway request answered, every fetchData call settles, and
\* once a call has run and none is in flight loading is false.
C9_Settles ==
  /\ \A r \in FetchIds : [](InFlight(r) => <>Settled(r))
  /\ [](mounted /\ ~(\E r \in FetchIds : InFlight(r)) => ~loading)

\* three fetchData calls have settled, two of them having overlapped (products
\* and inquiries were last written by different calls), and loading is false
C9_Witness ==
  /\ Len(fetches) >= 3
  /\ \A r \in DOMAIN fetches : Settled(r)
  /\ prodSrc # inqSrc
  /\ ~loading

\* C10: the dashboard is shown only to an authenticated session.
C10_DashboardGuard == view = "admin-dashboard" => isAdmin

\* the dashboard is on screen
C10_Witness == Rendered("admin-dashboard") /\ isAdmin

\* C11: the session starts with loading true and no fetchData call; the mount
\* effect starts the first call, once; until that call settles loading stays
\* true and no other call exists, and no login attempt, addProduct,
\* deleteProduct or addInquiry happens; every later fetchData call is started
\* by the continuation of an addProduct or deleteProduct whose gateway call
\* succeeded.
C11_InitialLoad ==
  /\ [](/\ ~mounted => (loading /\ fetches = <<>>)
        /\ mounted => Len(fetches) >= 1
        /\ ~Settled(1) => (loading /\ Len(fetches) <= 1 /\ muts = <<>> /\ ~isAdmin))
  /\ [][/\ (\/ HandleLogin
            \/ Len(muts') > Len(muts)
            \/ \E id \in RowIds, answer \in BOOLEAN : DeleteProduct(id, answer))
           => Settled(1)
        /\ Len(fetches') > Len(fetches) =>
             /\ Len(fetches') = Len(fetches) + 1
             /\ \/ /\ ~mounted
                   /\ fetches = <<>>
                   /\ fetches'[1].cause = NoCause
                \/ \E i \in MutIds, fn \in {"addProduct", "deleteProduct"} :
                     /\ MutationReturn(i, fn)
                     /\ ~muts[i].resp.error
                     /\ fetches'[Len(fetches')].cause.fn = fn]_vars

\* the first fetchData call is still in flight and the user has already clicked
\* the Admin nav button: the login form is selected but not rendered
C11_Witness ==
  /\ Len(fetches) = 1
  /\ InFlight(1)
  /\ loading
  /\ view = "admin-login"
  /\ ~Rendered("admin-login")

====
